---- MODULE Spec2Model ----
(***************************************************************************)
(* The websocket control channel of the daemon (websocket.go) and the      *)
(* resource-usage record of a server (server/resources.go).                *)
(*                                                                         *)
(* One handler thread per upgrade request runs routeWebsocket; producer    *)
(* threads emit status, console and stats events on the server's event     *)
(* broadcaster.  The broadcaster (AddListener, RemoveListener, Emit of the *)
(* server package) is not among the sources; it is modelled from its       *)
(* description: callbacks per event name in registration order, removal by *)
(* identity, a synchronous Emit that calls the callbacks registered when   *)
(* it reads the list, one after the other, on the emitting thread.         *)
(***************************************************************************)
EXTENDS Integers, Sequences, FiniteSets, TLC

\* ------------------------------------------------------------------ bounds

NumConns == 2
NumProducers == 1
MaxTime == 2
MaxEmits == 1
MaxLogLines == 2
NumReaders == 1
MaxUint == 3
FloatExact == 4

\* --------------------------------------------------------------- constants

Tolerance == 15
ReadlogBytes == 16384

SetStateEvent == "set state"
SendServerLogsEvent == "send logs"
SendCommandEvent == "send command"

PermissionConnect == "connect"
PermissionSendCommand == "send-command"
PermissionSendPower == "send-power"

StatusEvent == "status"
ConsoleOutputEvent == "console output"
StatsEvent == "stats"

Events == {StatusEvent, ConsoleOutputEvent, StatsEvent}

\* os.Kill, the signal HandleInbound's "kill" passes to Terminate.
Kill == <<"SIGKILL">>

\* The close codes routeWebsocket takes for an expected disconnect.
BenignCloseCodes ==
    {"CloseNormalClosure", "CloseGoingAway", "CloseNoStatusReceived",
     "CloseServiceRestart", "CloseAbnormalClosure"}

\* ------------------------------------------------------------------ values

Conns == 1..NumConns
Producers == 1..NumProducers

\* Threads of control: the handler goroutine of a request, the producers.
HandlerThread(c) == <<"h", c>>
ProducerThread(p) == <<"p", p>>
Threads == {HandlerThread(c) : c \in Conns} \cup {ProducerThread(p) : p \in Producers}

Readers == 1..NumReaders
NoThread == <<"none", 0>>
NoJWT == [none |-> TRUE]

\* The uuid of the server the requests name, and another server's.
ServerUuid == "srv-a"
OtherUuid == "srv-b"

\* A string of an inbound frame is the sequence of its characters.
S_start == <<"s", "t", "a", "r", "t">>
S_stop == <<"s", "t", "o", "p">>
S_restart == <<"r", "e", "s", "t", "a", "r", "t">>
S_kill == <<"k", "i", "l", "l">>
S_ki == <<"k", "i">>
S_ll == <<"l", "l">>
S_other == <<"x">>
S_cmd == <<"s", "a", "y">>

\* The first argument standing for all of them.
JoinFirstOnly(args) == IF args = <<>> THEN <<>> ELSE Head(args)

\* strings.Join(args, ""): the arguments' characters, in order, nothing between.
RECURSIVE Join(_)
Join(args) == IF args = <<>> THEN <<>> ELSE Head(args) \o Join(Tail(args))

\* ------------------------------------------------------------------ tokens

\* Permission lists a token may carry (WebsocketTokenPayload.Permissions).
PermLists ==
    {<<>>,
     <<PermissionSendCommand, PermissionSendPower>>,
     <<PermissionConnect>>,
     <<PermissionConnect, PermissionSendCommand>>,
     <<PermissionConnect, PermissionSendPower>>,
     <<PermissionConnect, PermissionSendCommand, PermissionSendPower>>}

\* Not-before and expiration times around the tolerance, in seconds.
NbfVals == {0, Tolerance, Tolerance + 1}
ExpVals == {0 - Tolerance, 1 - Tolerance, MaxTime + Tolerance + 2}

\* A token as presented: sig says whether the HMAC signature verifies.
Tokens ==
    [sig : BOOLEAN, NotBefore : NbfVals, ExpirationTime : ExpVals,
     ServerUUID : {ServerUuid, OtherUuid}, Permissions : PermLists]

\* A token that passes every check at any time within the horizon and
\* carries the "connect" permission only.
ConnectToken ==
    [sig |-> TRUE, NotBefore |-> 0, ExpirationTime |-> MaxTime + Tolerance + 2,
     ServerUUID |-> ServerUuid, Permissions |-> <<PermissionConnect>>]

\* A token that passes every check at any time within the horizon.
FullToken ==
    [sig |-> TRUE, NotBefore |-> 0, ExpirationTime |-> MaxTime + Tolerance + 2,
     ServerUUID |-> ServerUuid,
     Permissions |-> <<PermissionConnect, PermissionSendCommand, PermissionSendPower>>]

\* The decoded payload, which is what the handler keeps.
Payload(tok) ==
    [NotBefore |-> tok.NotBefore, ExpirationTime |-> tok.ExpirationTime,
     ServerUUID |-> tok.ServerUUID, Permissions |-> tok.Permissions]

HasPermission(wtp, permission) ==
    \E k \in 1..Len(wtp.Permissions) : wtp.Permissions[k] = permission

\* ParseJWT with the expiration refused from the tolerance on.
ParseJWTExpStrict(tok, t) ==
    IF ~tok.sig THEN "signature"
    ELSE IF t - tok.NotBefore <= 0 - Tolerance THEN "nbf"
    ELSE IF t - tok.ExpirationTime >= Tolerance THEN "exp"
    ELSE IF ~HasPermission(tok, PermissionConnect) THEN "connect"
    ELSE "nil"

\* ParseJWT at time t: the error it returns ("nil" for none).
ParseJWT(tok, t) ==
    IF ~tok.sig THEN "signature"
    ELSE IF t - tok.NotBefore <= 0 - Tolerance THEN "nbf"
    ELSE IF t - tok.ExpirationTime > Tolerance THEN "exp"
    ELSE IF ~HasPermission(tok, PermissionConnect) THEN "connect"
    ELSE "nil"

\* TokenValid without the comparison of the server uuids.
TokenValidAnyServer(jwt, uuid, t) ==
    IF jwt = NoJWT THEN "nojwt"
    ELSE IF t - jwt.ExpirationTime > Tolerance THEN "exp"
    ELSE IF ~HasPermission(jwt, PermissionConnect) THEN "connect"
    ELSE "nil"

\* TokenValid at time t of a handler with token jwt bound to the server uuid.
TokenValid(jwt, uuid, t) ==
    IF jwt = NoJWT THEN "nojwt"
    ELSE IF t - jwt.ExpirationTime > Tolerance THEN "exp"
    ELSE IF ~HasPermission(jwt, PermissionConnect) THEN "connect"
    ELSE IF uuid # jwt.ServerUUID THEN "uuid"
    ELSE "nil"

\* ------------------------------------------------------------------ frames

\* What ReadMessage hands to the loop: an error with its close code, or the
\* bytes of a frame, which are a JSON object or are not.
RawFrames ==
    {[json |-> FALSE, event |-> "", args |-> <<>>]}
    \cup [json : {TRUE}, event : {SetStateEvent},
          args : {<<S_start>>, <<S_stop>>, <<S_restart>>, <<S_kill>>,
                  <<S_ki, S_ll>>, <<S_other>>}]
    \cup {[json |-> TRUE, event |-> SendServerLogsEvent, args |-> <<>>],
          [json |-> TRUE, event |-> SendCommandEvent, args |-> <<S_cmd>>],
          [json |-> TRUE, event |-> "ping", args |-> <<>>]}

ReadErrors == {"CloseNormalClosure", "ClosePolicyViolation"}

\* The message without the inbound mark.
NewMessageUnmarked == [Event |-> "", Args |-> <<>>, inbound |-> FALSE]

\* The message the loop decodes into (line 189).
NewMessage == [Event |-> "", Args |-> <<>>, inbound |-> TRUE]

\* json.Unmarshal(p, &j): sets the exported fields, never the inbound flag.
Unmarshal(p, j) ==
    IF p.json
    THEN [ok |-> TRUE, j |-> [j EXCEPT !.Event = p.event, !.Args = p.args]]
    ELSE [ok |-> FALSE, j |-> j]

\* What the control surface answers during one dispatch: whether the call
\* that is made fails, whether the server runs, what the log holds.
LogLine(i) == [text |-> "log", line |-> i]
LogOutputs == {[i \in 1..n |-> LogLine(i)] : n \in 0..MaxLogLines}
EnvOutcomes == [fails : BOOLEAN, running : BOOLEAN, logs : LogOutputs]

\* A call on the control surface: the operation, its string or signal
\* argument, its numeric argument (0 where it has none).
Call(op, arg, n) == [op |-> op, arg |-> arg, n |-> n]
NoArg == <<>>

Outcome(calls, err, lines) == [calls |-> calls, err |-> err, lines |-> lines]

Nothing == Outcome(<<>>, "nil", <<>>)

EnvErr(env) == IF env.fails THEN "env" ELSE "nil"

\* HandleSetState with "kill" wired to Stop.
HandleSetStateKillStops(m, jwt, env) ==
    IF ~HasPermission(jwt, PermissionSendPower) THEN Nothing
    ELSE LET a == Join(m.Args) IN
         IF a = S_start THEN Outcome(<<Call("Start", NoArg, 0)>>, EnvErr(env), <<>>)
         ELSE IF a = S_stop \/ a = S_kill
              THEN Outcome(<<Call("Stop", NoArg, 0)>>, EnvErr(env), <<>>)
         ELSE Nothing

\* case SetStateEvent (lines 243-267).
HandleSetState(m, jwt, env) ==
    IF ~HasPermission(jwt, PermissionSendPower) THEN Nothing
    ELSE LET a == Join(m.Args) IN
         IF a = S_start THEN Outcome(<<Call("Start", NoArg, 0)>>, EnvErr(env), <<>>)
         ELSE IF a = S_stop THEN Outcome(<<Call("Stop", NoArg, 0)>>, EnvErr(env), <<>>)
         ELSE IF a = S_restart THEN Nothing
         ELSE IF a = S_kill THEN Outcome(<<Call("Terminate", Kill, 0)>>, EnvErr(env), <<>>)
         ELSE Nothing

\* The log read whether the server runs or not.
HandleSendLogsUnchecked(m, jwt, env) ==
    IF env.fails
    THEN Outcome(<<Call("IsRunning", NoArg, 0), Call("Readlog", NoArg, ReadlogBytes)>>,
                 "env", <<>>)
    ELSE Outcome(<<Call("IsRunning", NoArg, 0), Call("Readlog", NoArg, ReadlogBytes)>>,
                 "nil", env.logs)

\* case SendServerLogsEvent (lines 268-287): the error of IsRunning is dropped.
HandleSendLogs(m, jwt, env) ==
    IF ~env.running THEN Outcome(<<Call("IsRunning", NoArg, 0)>>, "nil", <<>>)
    ELSE IF env.fails
         THEN Outcome(<<Call("IsRunning", NoArg, 0), Call("Readlog", NoArg, ReadlogBytes)>>,
                      "env", <<>>)
         ELSE Outcome(<<Call("IsRunning", NoArg, 0), Call("Readlog", NoArg, ReadlogBytes)>>,
                      "nil", env.logs)

\* HandleSendCommand without its permission check.
HandleSendCommandUngated(m, jwt, env) ==
    Outcome(<<Call("SendCommand", Join(m.Args), 0)>>, EnvErr(env), <<>>)

\* case SendCommandEvent (lines 288-295).
HandleSendCommand(m, jwt, env) ==
    IF ~HasPermission(jwt, PermissionSendCommand) THEN Nothing
    ELSE Outcome(<<Call("SendCommand", Join(m.Args), 0)>>, EnvErr(env), <<>>)

\* HandleInbound without the token re-check.
HandleInboundNoRecheck(m, jwt, uuid, t, env) ==
    IF ~m.inbound THEN Outcome(<<>>, "notInbound", <<>>)
    ELSE IF m.Event = SetStateEvent THEN HandleSetState(m, jwt, env)
    ELSE IF m.Event = SendServerLogsEvent THEN HandleSendLogs(m, jwt, env)
    ELSE IF m.Event = SendCommandEvent THEN HandleSendCommand(m, jwt, env)
    ELSE Nothing

\* HandleInbound: the calls it makes on the control surface, the error it
\* returns and the log lines it goes on to send.
HandleInbound(m, jwt, uuid, t, env) ==
    IF ~m.inbound THEN Outcome(<<>>, "notInbound", <<>>)
    ELSE IF TokenValid(jwt, uuid, t) # "nil" THEN Nothing
    ELSE IF m.Event = SetStateEvent THEN HandleSetState(m, jwt, env)
    ELSE IF m.Event = SendServerLogsEvent THEN HandleSendLogs(m, jwt, env)
    ELSE IF m.Event = SendCommandEvent THEN HandleSendCommand(m, jwt, env)
    ELSE Nothing

\* ------------------------------------------------------------------- state

VARIABLES
    now,            \* time.Now().Unix()
    State,          \* s.State, the server's status
    listeners,      \* the broadcaster: event name -> callbacks, in registration order
    emits,          \* events the producers have emitted
    pc,             \* where each request's routeWebsocket is
    JWT,            \* handler.JWT
    parseErr,       \* what ParseJWT returned for the request
    Connection,     \* handler.Connection: "none", "open", "closed"
    exitCause,      \* why the read loop ended
    res,            \* the last frame dispatched, when, whether the token re-check
                    \* failed for it, what the server answered if it asked for the
                    \* logs, and what HandleInbound did with it
    afterMalformed, \* the frame read last failed to decode
    staleSeen,      \* some frame of this connection failed the token re-check
    Mutex,          \* handler.Mutex: the thread holding it
    writing,        \* the threads inside Connection.WriteJSON
    sent,           \* messages written to the socket since the last frame was dispatched
    todo,           \* per thread: the SendJson calls it still has to make, in order
    jwtArg,         \* a token, an instant and a server uuid to apply the checks to
    jwtRes,         \* what ParseJWT and TokenValid answer for jwtArg
    ru,             \* the ResourceUsage: its six fields
    rw,             \* its RWMutex: whether a writer holds it, the readers holding it
    emptyPc,        \* where the call of Empty is
    prior,          \* the fields as they were when Empty last took the lock
    readerPc,       \* where each reader is
    seen,           \* the fields each reader read last
    calcArg,        \* the statistics a calculation is applied to
    calcRes,        \* what the calculation returns for calcArg
    stalled         \* the connections whose client has stopped reading

vars ==
    <<now, State, listeners, emits, pc, JWT, parseErr, Connection, exitCause, res,
      afterMalformed, staleSeen, Mutex, writing, sent, todo, jwtArg, jwtRes,
      ru, rw, emptyPc, prior, readerPc, seen, calcArg, calcRes, stalled>>

connVars == <<pc, JWT, parseErr, Connection, exitCause, res, afterMalformed, staleSeen>>
jwtVars == <<jwtArg, jwtRes>>
sendVars == <<Mutex, writing, sent, todo>>
resVars == <<ru, rw, emptyPc, prior, readerPc, seen>>
calcVars == <<calcArg, calcRes>>

Text(s) == [text |-> s, line |-> 0]

Message(event, data) == [Event |-> event, Args |-> <<data>>]

NoFrame == [json |-> FALSE, event |-> "", args |-> <<>>]

NoRes ==
    [handled |-> FALSE, frame |-> NoFrame, at |-> 0, prevMalformed |-> FALSE,
     stale |-> FALSE, running |-> FALSE, logs |-> <<>>, calls |-> <<>>,
     err |-> "nil", lines |-> <<>>]

JwtIdle == [done |-> FALSE, parse |-> "", valid |-> "", absent |-> ""]

InitSystem ==
    /\ now = 0
    /\ State = "offline"
    /\ listeners = [e \in Events |-> <<>>]
    /\ emits = 0
    /\ pc = [c \in Conns |-> "init"]
    /\ JWT = [c \in Conns |-> NoJWT]
    /\ parseErr = [c \in Conns |-> "none"]
    /\ Connection = [c \in Conns |-> "none"]
    /\ exitCause = [c \in Conns |-> "none"]
    /\ res = [c \in Conns |-> NoRes]
    /\ afterMalformed = [c \in Conns |-> FALSE]
    /\ staleSeen = [c \in Conns |-> FALSE]
    /\ Mutex = [c \in Conns |-> NoThread]
    /\ writing = [c \in Conns |-> {}]
    /\ sent = [c \in Conns |-> <<>>]
    /\ todo = [t \in Threads |-> <<>>]
    /\ stalled = {}

\* A ResourceUsage as constructed: every field zero, the lock free.
NoUsage ==
    [Memory |-> 0, MemoryLimit |-> 0, CpuAbsolute |-> 0, Disk |-> 0,
     RxBytes |-> 0, TxBytes |-> 0]

InitUsage(usages) ==
    /\ ru \in usages
    /\ prior = ru
    /\ rw = [w |-> FALSE, r |-> {}]
    /\ emptyPc = "idle"
    /\ readerPc = [r \in Readers |-> "idle"]
    /\ seen = [r \in Readers |-> NoUsage]

\* No statistics: no memory statistics, counters and CPU counts zero.
NoStats == [k \in {} |-> 0]

NoCalc ==
    [fn |-> "none", Usage |-> 0, Stats |-> NoStats, PreTotalUsage |-> 0,
     PreSystemUsage |-> 0, TotalUsage |-> 0, SystemUsage |-> 0, OnlineCPUs |-> 0,
     PercpuUsage |-> 0]

CalcIdle == [done |-> FALSE, value |-> 0, divZero |-> FALSE]

InitCalcIdle ==
    /\ calcArg = NoCalc
    /\ calcRes = CalcIdle

InitJwtIdle ==
    /\ jwtArg = [tok |-> FullToken, now |-> 0, uuid |-> ServerUuid]
    /\ jwtRes = JwtIdle

Init ==
    /\ InitSystem
    /\ InitJwtIdle
    /\ InitUsage({NoUsage})
    /\ InitCalcIdle

\* ------------------------------------------------------------- broadcaster

\* s.AddListener(event, &callback): the callback of connection c for the event.
AddListener(event, c) ==
    listeners' = [listeners EXCEPT ![event] = Append(@, c)]

\* s.RemoveListener(event, &callback): that callback goes, the others stay.
RemoveListener(event, c) ==
    listeners' = [listeners EXCEPT ![event] = SelectSeq(@, LAMBDA x : x # c)]

\* s.Emit(event, data): one callback invocation per registered callback, in
\* registration order; each callback is one SendJson on its connection.
Deliveries(event, data) ==
    [i \in 1..Len(listeners[event]) |->
        [to |-> listeners[event][i], msg |-> Message(event, data)]]

\* ----------------------------------------------------------------- SendJson

IsHandler(t) == t[1] = "h"

\* SendJson entering the write without taking the mutex.
SendJsonEnterUnlocked(t, to) ==
    /\ Mutex' = Mutex
    /\ writing' = [writing EXCEPT ![to] = @ \cup {t}]

\* SendJson up to the write: the thread takes the connection's mutex and
\* enters Connection.WriteJSON.
SendJsonEnter(t, to) ==
    /\ Mutex[to] = NoThread
    /\ Mutex' = [Mutex EXCEPT ![to] = t]
    /\ writing' = [writing EXCEPT ![to] = @ \cup {t}]

\* SendJson from the write on: the frame is on the socket if the socket is
\* open (WriteJSON fails on a closed one), the deferred Unlock runs.
SendJsonLeave(t, to, msg) ==
    /\ writing' = [writing EXCEPT ![to] = @ \ {t}]
    /\ Mutex' = [Mutex EXCEPT ![to] = IF @ = t THEN NoThread ELSE @]
    /\ sent' = [sent EXCEPT ![to] = IF Connection[to] = "open" THEN Append(@, msg) ELSE @]

\* A thread starts the SendJson call it has to make next.
SendBegin(t) ==
    /\ todo[t] # <<>>
    /\ \A c \in Conns : t \notin writing[c]
    /\ SendJsonEnter(t, Head(todo[t]).to)
    /\ UNCHANGED <<now, State, listeners, emits, connVars, sent, todo, jwtVars, resVars, calcVars, stalled>>

\* The write returns; a handler thread that has made its last call goes on
\* to read the next frame.
SendEnd(t) ==
    /\ todo[t] # <<>>
    /\ t \in writing[Head(todo[t]).to]
    /\ SendJsonLeave(t, Head(todo[t]).to, Head(todo[t]).msg)
    /\ todo' = [todo EXCEPT ![t] = Tail(@)]
    /\ pc' = IF IsHandler(t) /\ Tail(todo[t]) = <<>>
             THEN [pc EXCEPT ![t[2]] = "read"]
             ELSE pc
    /\ UNCHANGED <<now, State, listeners, emits, JWT, parseErr, Connection, exitCause,
                   res, afterMalformed, staleSeen, jwtVars, resVars, calcVars, stalled>>

\* ----------------------------------------------------------- routeWebsocket

\* The tokens a request may present: signed or not, usable from the start
\* or not yet within the horizon, expiring within the horizon or after it.
ConnTokens ==
    [sig : BOOLEAN, NotBefore : {0, MaxTime + Tolerance},
     ExpirationTime : {1 - Tolerance, MaxTime + Tolerance + 2},
     ServerUUID : {ServerUuid, OtherUuid}, Permissions : PermLists]

\* routeWebsocket going on to the upgrade whatever ParseJWT returned.
ConnectIgnoringError(c, toks) ==
    /\ pc[c] = "init"
    /\ \E tok \in toks, upgradeOk \in BOOLEAN :
        /\ parseErr' = [parseErr EXCEPT ![c] = ParseJWT(tok, now)]
        /\ IF ~upgradeOk
           THEN /\ pc' = [pc EXCEPT ![c] = "upgradeFailed"]
                /\ UNCHANGED <<Connection, JWT>>
           ELSE /\ pc' = [pc EXCEPT ![c] = "addStatus"]
                /\ Connection' = [Connection EXCEPT ![c] = "open"]
                /\ JWT' = [JWT EXCEPT ![c] = Payload(tok)]
    /\ UNCHANGED <<now, State, listeners, emits, exitCause, res, afterMalformed,
                   staleSeen, sendVars, jwtVars, resVars, calcVars, stalled>>

\* ParseJWT, the upgrade and the construction of the handler (lines 136-154),
\* for a request presenting one of the tokens toks.
Connect(c, toks) ==
    /\ pc[c] = "init"
    /\ \E tok \in toks, upgradeOk \in BOOLEAN :
        LET err == ParseJWT(tok, now) IN
        /\ parseErr' = [parseErr EXCEPT ![c] = err]
        /\ IF err # "nil"
           THEN /\ pc' = [pc EXCEPT ![c] = "rejected"]
                /\ UNCHANGED <<Connection, JWT>>
           ELSE IF ~upgradeOk
           THEN /\ pc' = [pc EXCEPT ![c] = "upgradeFailed"]
                /\ UNCHANGED <<Connection, JWT>>
           ELSE /\ pc' = [pc EXCEPT ![c] = "addStatus"]
                /\ Connection' = [Connection EXCEPT ![c] = "open"]
                /\ JWT' = [JWT EXCEPT ![c] = Payload(tok)]
    /\ UNCHANGED <<now, State, listeners, emits, exitCause, res, afterMalformed,
                   staleSeen, sendVars, jwtVars, resVars, calcVars, stalled>>

\* Lines 177, 180 and 183: the three subscriptions.
AddStatusListener(c) ==
    /\ pc[c] = "addStatus"
    /\ AddListener(StatusEvent, c)
    /\ pc' = [pc EXCEPT ![c] = "addOutput"]
    /\ UNCHANGED <<now, State, emits, JWT, parseErr, Connection, exitCause, res,
                   afterMalformed, staleSeen, sendVars, jwtVars, resVars, calcVars, stalled>>

AddOutputListener(c) ==
    /\ pc[c] = "addOutput"
    /\ AddListener(ConsoleOutputEvent, c)
    /\ pc' = [pc EXCEPT ![c] = "addStats"]
    /\ UNCHANGED <<now, State, emits, JWT, parseErr, Connection, exitCause, res,
                   afterMalformed, staleSeen, sendVars, jwtVars, resVars, calcVars, stalled>>

AddStatsListener(c) ==
    /\ pc[c] = "addStats"
    /\ AddListener(StatsEvent, c)
    /\ pc' = [pc EXCEPT ![c] = "emit"]
    /\ UNCHANGED <<now, State, emits, JWT, parseErr, Connection, exitCause, res,
                   afterMalformed, staleSeen, sendVars, jwtVars, resVars, calcVars, stalled>>

\* Line 186: s.Emit(server.StatusEvent, s.State) on the handler's thread.
EmitState(c) ==
    /\ pc[c] = "emit"
    /\ LET calls == Deliveries(StatusEvent, Text(State)) IN
        /\ todo' = [todo EXCEPT ![HandlerThread(c)] = calls]
        /\ pc' = [pc EXCEPT ![c] = IF calls = <<>> THEN "read" ELSE "emitting"]
    /\ UNCHANGED <<now, State, listeners, emits, JWT, parseErr, Connection, exitCause,
                   res, afterMalformed, staleSeen, Mutex, writing, sent, jwtVars, resVars, calcVars, stalled>>

\* How the loop leaves on a ReadMessage error (lines 192-204).
ReadErrorCause(code) ==
    IF code \in BenignCloseCodes THEN "benignClose" ELSE "readError"

\* A frame that does not decode ending the loop.
OnDecodeFailureBreaks(c) ==
    /\ afterMalformed' = [afterMalformed EXCEPT ![c] = TRUE]
    /\ pc' = [pc EXCEPT ![c] = "rmStats"]
    /\ UNCHANGED <<exitCause, res, staleSeen, sent, todo>>

\* A frame that does not decode: continue (lines 209-211).
OnDecodeFailure(c) ==
    /\ afterMalformed' = [afterMalformed EXCEPT ![c] = TRUE]
    /\ UNCHANGED <<pc, exitCause, res, staleSeen, sent, todo>>

\* A decoded frame: HandleInbound, then break on its error (lines 213-216),
\* or the SendJson calls of the log lines (lines 279-284), or the next read.
OnFrame(c, p, j, env) ==
    LET r == HandleInbound(j, JWT[c], ServerUuid, now, env)
        stale == TokenValid(JWT[c], ServerUuid, now) # "nil"
        asked == p.event = SendServerLogsEvent
    IN
    /\ res' = [res EXCEPT ![c] =
                  [handled |-> TRUE, frame |-> p, at |-> now,
                   prevMalformed |-> afterMalformed[c], stale |-> stale,
                   running |-> asked /\ env.running,
                   logs |-> IF asked /\ env.running /\ ~env.fails THEN env.logs ELSE <<>>,
                   calls |-> r.calls, err |-> r.err, lines |-> r.lines]]
    /\ afterMalformed' = [afterMalformed EXCEPT ![c] = FALSE]
    /\ staleSeen' = [staleSeen EXCEPT ![c] = @ \/ stale]
    /\ sent' = [sent EXCEPT ![c] = <<>>]
    /\ IF r.err # "nil"
       THEN /\ pc' = [pc EXCEPT ![c] = "rmStats"]
            /\ exitCause' = [exitCause EXCEPT ![c] = "dispatchError"]
            /\ UNCHANGED todo
       ELSE /\ pc' = [pc EXCEPT ![c] = IF r.lines = <<>> THEN "read" ELSE "logs"]
            /\ todo' = [todo EXCEPT ![HandlerThread(c)] =
                           [i \in 1..Len(r.lines) |->
                               [to |-> c, msg |-> Message(ConsoleOutputEvent, r.lines[i])]]]
            /\ UNCHANGED exitCause

\* One turn of the read loop (lines 188-217): ReadMessage fails, or yields
\* one of the frames, which is decoded and dispatched.
ReadLoop(c, frames, errors) ==
    /\ pc[c] = "read"
    /\ \/ \E code \in errors :
            /\ pc' = [pc EXCEPT ![c] = "rmStats"]
            /\ exitCause' = [exitCause EXCEPT ![c] = ReadErrorCause(code)]
            /\ UNCHANGED <<res, afterMalformed, staleSeen, sent, todo>>
       \/ \E p \in frames, env \in EnvOutcomes :
            LET u == Unmarshal(p, NewMessage) IN
            IF ~u.ok THEN OnDecodeFailure(c) ELSE OnFrame(c, p, u.j, env)
    /\ UNCHANGED <<now, State, listeners, emits, JWT, parseErr, Connection, Mutex,
                   writing, jwtVars, resVars, calcVars, stalled>>

\* The deferred calls, last registered first (lines 184, 181, 178, 146).
RemoveStatsListener(c) ==
    /\ pc[c] = "rmStats"
    /\ RemoveListener(StatsEvent, c)
    /\ pc' = [pc EXCEPT ![c] = "rmOutput"]
    /\ UNCHANGED <<now, State, emits, JWT, parseErr, Connection, exitCause, res,
                   afterMalformed, staleSeen, sendVars, jwtVars, resVars, calcVars, stalled>>

\* The console-output callback left registered on the way out.
RemoveOutputListenerMissing(c) ==
    /\ pc[c] = "rmOutput"
    /\ listeners' = listeners
    /\ pc' = [pc EXCEPT ![c] = "rmStatus"]
    /\ UNCHANGED <<now, State, emits, JWT, parseErr, Connection, exitCause, res,
                   afterMalformed, staleSeen, sendVars, jwtVars, resVars, calcVars, stalled>>

RemoveOutputListener(c) ==
    /\ pc[c] = "rmOutput"
    /\ RemoveListener(ConsoleOutputEvent, c)
    /\ pc' = [pc EXCEPT ![c] = "rmStatus"]
    /\ UNCHANGED <<now, State, emits, JWT, parseErr, Connection, exitCause, res,
                   afterMalformed, staleSeen, sendVars, jwtVars, resVars, calcVars, stalled>>

\* The status callback left registered on the way out.
RemoveStatusListenerMissing(c) ==
    /\ pc[c] = "rmStatus"
    /\ listeners' = listeners
    /\ pc' = [pc EXCEPT ![c] = "close"]
    /\ UNCHANGED <<now, State, emits, JWT, parseErr, Connection, exitCause, res,
                   afterMalformed, staleSeen, sendVars, jwtVars, resVars, calcVars, stalled>>

RemoveStatusListener(c) ==
    /\ pc[c] = "rmStatus"
    /\ RemoveListener(StatusEvent, c)
    /\ pc' = [pc EXCEPT ![c] = "close"]
    /\ UNCHANGED <<now, State, emits, JWT, parseErr, Connection, exitCause, res,
                   afterMalformed, staleSeen, sendVars, jwtVars, resVars, calcVars, stalled>>

\* The socket closed only once the connection's mutex is free.
CloseSocketLocked(c) ==
    /\ pc[c] = "close"
    /\ Mutex[c] = NoThread
    /\ Connection' = [Connection EXCEPT ![c] = "closed"]
    /\ pc' = [pc EXCEPT ![c] = "closed"]
    /\ UNCHANGED <<now, State, listeners, emits, JWT, parseErr, exitCause, res,
                   afterMalformed, staleSeen, sendVars, jwtVars, resVars, calcVars, stalled>>

\* Line 146: the deferred c.Close().
CloseSocket(c) ==
    /\ pc[c] = "close"
    /\ Connection' = [Connection EXCEPT ![c] = "closed"]
    /\ pc' = [pc EXCEPT ![c] = "closed"]
    /\ UNCHANGED <<now, State, listeners, emits, JWT, parseErr, exitCause, res,
                   afterMalformed, staleSeen, sendVars, jwtVars, resVars, calcVars, stalled>>

\* --------------------------------------------------------------- producers

\* What a producer emits: a status change (the other status), a console
\* line, a stats snapshot.
EmitData(event) ==
    IF event = StatusEvent THEN Text(IF State = "offline" THEN "running" ELSE "offline")
    ELSE IF event = ConsoleOutputEvent THEN Text("out")
    ELSE Text("{}")

\* A producer calls s.Emit; a status change is the server's new status.
ProducerEmit(p) ==
    /\ todo[ProducerThread(p)] = <<>>
    /\ emits < MaxEmits
    /\ \E event \in Events :
        /\ todo' = [todo EXCEPT ![ProducerThread(p)] = Deliveries(event, EmitData(event))]
        /\ State' = IF event = StatusEvent THEN EmitData(event).text ELSE State
    /\ emits' = emits + 1
    /\ UNCHANGED <<now, listeners, connVars, Mutex, writing, sent, jwtVars, resVars, calcVars, stalled>>

\* The clock advances.
Tick ==
    /\ now < MaxTime
    /\ now' = now + 1
    /\ UNCHANGED <<State, listeners, emits, connVars, sendVars, jwtVars, resVars, calcVars, stalled>>

\* One upgrade request, with any token and any frames; no producer emits.
Client == CHOOSE c \in Conns : \A d \in Conns : c <= d

Next ==
    \/ Connect(Client, ConnTokens)
    \/ AddStatusListener(Client)
    \/ AddOutputListener(Client)
    \/ AddStatsListener(Client)
    \/ EmitState(Client)
    \/ ReadLoop(Client, RawFrames, ReadErrors)
    \/ RemoveStatsListener(Client)
    \/ RemoveOutputListener(Client)
    \/ RemoveStatusListener(Client)
    \/ CloseSocket(Client)
    \/ SendBegin(HandlerThread(Client))
    \/ SendEnd(HandlerThread(Client))
    \/ Tick

Spec == Init /\ [][Next]_vars

\* Once the read loop has ended the handler's goroutine keeps being
\* scheduled: each deferred call runs, until routeWebsocket returns.
Fairness ==
    /\ WF_vars(RemoveStatsListener(Client))
    /\ WF_vars(RemoveOutputListener(Client))
    /\ WF_vars(RemoveStatusListener(Client))
    /\ WF_vars(CloseSocket(Client))

FairSpec == Spec /\ Fairness

\* Every request with a token that stays valid and permits no more than to
\* connect, the frames that make the handler write, and the producers
\* emitting at will.
SendLogsFrame == [json |-> TRUE, event |-> SendServerLogsEvent, args |-> <<>>]
ConcFrames(c) == IF c = Client THEN {SendLogsFrame} ELSE {}

NextConc ==
    \/ \E c \in Conns : Connect(c, {ConnectToken})
    \/ \E c \in Conns : AddStatusListener(c)
    \/ \E c \in Conns : AddOutputListener(c)
    \/ \E c \in Conns : AddStatsListener(c)
    \/ \E c \in Conns : EmitState(c)
    \/ \E c \in Conns : ReadLoop(c, ConcFrames(c), {"CloseNormalClosure"})
    \/ \E c \in Conns : RemoveStatsListener(c)
    \/ \E c \in Conns : RemoveOutputListener(c)
    \/ \E c \in Conns : RemoveStatusListener(c)
    \/ \E c \in Conns : CloseSocket(c)
    \/ \E t \in Threads : SendBegin(t)
    \/ \E t \in Threads : SendEnd(t)
    \/ \E p \in Producers : ProducerEmit(p)

ConcSpec == Init /\ [][NextConc]_vars

\* One client stops reading, at any time, for good: from then on a write on
\* its socket never returns (SendJson sets no deadline, lines 223-228). The
\* other connections read what is written to them. No frame arrives: a read
\* loop ends when its client goes away.
Responsive(c) == c \notin stalled

Stall ==
    /\ stalled = {}
    /\ stalled' = {Client}
    /\ UNCHANGED <<now, State, listeners, emits, connVars, sendVars, jwtVars, resVars,
                   calcVars>>

StallFrames(c) == {}

\* The write a thread is in returns: its peer has read the frame.
SendEndResponsive(t) ==
    /\ todo[t] # <<>>
    /\ Responsive(Head(todo[t]).to)
    /\ SendEnd(t)

NextStall ==
    \/ \E c \in Conns : Connect(c, {FullToken})
    \/ \E c \in Conns : AddStatusListener(c)
    \/ \E c \in Conns : AddOutputListener(c)
    \/ \E c \in Conns : AddStatsListener(c)
    \/ \E c \in Conns : EmitState(c)
    \/ \E c \in Conns : ReadLoop(c, StallFrames(c), {"CloseNormalClosure"})
    \/ \E c \in Conns : RemoveStatsListener(c)
    \/ \E c \in Conns : RemoveOutputListener(c)
    \/ \E c \in Conns : RemoveStatusListener(c)
    \/ \E c \in Conns : CloseSocket(c)
    \/ \E t \in Threads : SendBegin(t)
    \/ \E t \in Threads : SendEndResponsive(t)
    \/ \E p \in Producers : ProducerEmit(p)
    \/ Stall

\* What a handler's goroutine does without waiting for anyone: its entry
\* sequence up to the status push, and its deferred calls.
HandlerStep(c) ==
    \/ AddStatusListener(c)
    \/ AddOutputListener(c)
    \/ AddStatsListener(c)
    \/ EmitState(c)
    \/ RemoveStatsListener(c)
    \/ RemoveOutputListener(c)
    \/ RemoveStatusListener(c)
    \/ CloseSocket(c)

\* Every goroutine that can run does: a handler goes through its entry
\* sequence and its deferred calls, a thread waiting for a mutex gets it
\* once it stays free, a write to a client that reads returns.
\* Nothing makes a client connect or send, or a producer emit.
StallFairness ==
    /\ \A c \in Conns : WF_vars(HandlerStep(c))
    /\ \A t \in Threads :
          /\ WF_vars(SendBegin(t))
          /\ WF_vars(SendEndResponsive(t))

StallSpec == Init /\ [][NextStall]_vars /\ StallFairness

\* The two token checks on their own: any token, any instant of the horizon,
\* either server; TokenValid also for a handler that holds no token.
InitJwt ==
    /\ InitSystem
    /\ jwtArg \in [tok : Tokens, now : 0..MaxTime, uuid : {ServerUuid, OtherUuid}]
    /\ jwtRes = JwtIdle
    /\ InitUsage({NoUsage})
    /\ InitCalcIdle

ApplyChecks ==
    /\ ~jwtRes.done
    /\ jwtRes' = [done |-> TRUE,
                  parse |-> ParseJWT(jwtArg.tok, jwtArg.now),
                  valid |-> TokenValid(Payload(jwtArg.tok), jwtArg.uuid, jwtArg.now),
                  absent |-> TokenValid(NoJWT, jwtArg.uuid, jwtArg.now)]
    /\ UNCHANGED <<now, State, listeners, emits, connVars, sendVars, jwtArg, resVars, calcVars, stalled>>

NextJwt == ApplyChecks

JwtSpec == InitJwt /\ [][NextJwt]_vars

\* ----------------------------------------------------------- ResourceUsage

\* The usages a server may have when it is stopped: each field zero or not,
\* the disk usage (an int64) also negative.
Usages ==
    [Memory : {0, 5}, MemoryLimit : {0, 9}, CpuAbsolute : {0, 3}, Disk : {0 - 1, 0, 7},
     RxBytes : {0, 2}, TxBytes : {0, 4}]

\* ru.Lock() taken without waiting for the readers to leave.
EmptyLockUnguarded ==
    /\ emptyPc \in {"idle", "done"}
    /\ ~rw.w
    /\ rw' = [rw EXCEPT !.w = TRUE]
    /\ prior' = ru
    /\ emptyPc' = "memory"
    /\ UNCHANGED <<ru, readerPc, seen>>

\* Empty, line 40: ru.Lock(), once no reader and no writer holds the lock.
EmptyLock ==
    /\ emptyPc \in {"idle", "done"}
    /\ ~rw.w
    /\ rw.r = {}
    /\ rw' = [rw EXCEPT !.w = TRUE]
    /\ prior' = ru
    /\ emptyPc' = "memory"
    /\ UNCHANGED <<ru, readerPc, seen>>

\* Lines 43-46: the four assignments, one after the other.
EmptyMemory ==
    /\ emptyPc = "memory"
    /\ ru' = [ru EXCEPT !.Memory = 0]
    /\ emptyPc' = "cpu"
    /\ UNCHANGED <<rw, prior, readerPc, seen>>

EmptyCpu ==
    /\ emptyPc = "cpu"
    /\ ru' = [ru EXCEPT !.CpuAbsolute = 0]
    /\ emptyPc' = "tx"
    /\ UNCHANGED <<rw, prior, readerPc, seen>>

EmptyTx ==
    /\ emptyPc = "tx"
    /\ ru' = [ru EXCEPT !.TxBytes = 0]
    /\ emptyPc' = "rx"
    /\ UNCHANGED <<rw, prior, readerPc, seen>>

EmptyRx ==
    /\ emptyPc = "rx"
    /\ ru' = [ru EXCEPT !.RxBytes = 0]
    /\ emptyPc' = "unlock"
    /\ UNCHANGED <<rw, prior, readerPc, seen>>

\* Line 41: the deferred ru.Unlock().
EmptyUnlock ==
    /\ emptyPc = "unlock"
    /\ rw' = [rw EXCEPT !.w = FALSE]
    /\ emptyPc' = "done"
    /\ UNCHANGED <<ru, prior, readerPc, seen>>

\* A reader takes the shared lock (RLock of the embedded RWMutex, line 12),
\* reads the fields, and releases it.
ReaderRLock(r) ==
    /\ readerPc[r] = "idle"
    /\ ~rw.w
    /\ rw' = [rw EXCEPT !.r = @ \cup {r}]
    /\ readerPc' = [readerPc EXCEPT ![r] = "locked"]
    /\ UNCHANGED <<ru, emptyPc, prior, seen>>

ReaderRead(r) ==
    /\ readerPc[r] \in {"locked", "read"}
    /\ seen' = [seen EXCEPT ![r] = ru]
    /\ readerPc' = [readerPc EXCEPT ![r] = "read"]
    /\ UNCHANGED <<ru, rw, emptyPc, prior>>

ReaderRUnlock(r) ==
    /\ readerPc[r] = "read"
    /\ rw' = [rw EXCEPT !.r = @ \ {r}]
    /\ readerPc' = [readerPc EXCEPT ![r] = "idle"]
    /\ UNCHANGED <<ru, emptyPc, prior, seen>>

NextUsage ==
    /\ \/ EmptyLock
       \/ EmptyMemory
       \/ EmptyCpu
       \/ EmptyTx
       \/ EmptyRx
       \/ EmptyUnlock
       \/ \E r \in Readers : ReaderRLock(r)
       \/ \E r \in Readers : ReaderRead(r)
       \/ \E r \in Readers : ReaderRUnlock(r)
    /\ UNCHANGED <<now, State, listeners, emits, connVars, sendVars, jwtVars, calcVars, stalled>>

InitUsageSpec ==
    /\ InitSystem
    /\ InitJwtIdle
    /\ InitUsage(Usages)
    /\ InitCalcIdle

UsageSpec == InitUsageSpec /\ [][NextUsage]_vars

\* ------------------------------------------------------------ calculations

\* Unsigned integers are 0..MaxUint here; their subtraction wraps as uint64's
\* does.
Uints == 0..MaxUint

SubUint(a, b) == (a - b) % (MaxUint + 1)

\* types.MemoryStats: Usage and the Stats map, which may lack either key.
StatKeys == {"total_inactive_file", "inactive_file"}

MemoryStats ==
    [Usage : Uints, Stats : UNION {[K -> Uints] : K \in SUBSET StatKeys}]

\* stats.Stats[key]: the value, zero for a key the map lacks.
StatOf(stats, key) == IF key \in DOMAIN stats.Stats THEN stats.Stats[key] ELSE 0

\* CalculateDockerMemory subtracting a value that equals the usage.
CalculateDockerMemoryLax(stats) ==
    IF "total_inactive_file" \in DOMAIN stats.Stats
          /\ StatOf(stats, "total_inactive_file") <= stats.Usage
    THEN SubUint(stats.Usage, StatOf(stats, "total_inactive_file"))
    ELSE IF StatOf(stats, "inactive_file") <= stats.Usage
    THEN SubUint(stats.Usage, StatOf(stats, "inactive_file"))
    ELSE stats.Usage

\* CalculateDockerMemory (lines 58-68).
CalculateDockerMemory(stats) ==
    IF "total_inactive_file" \in DOMAIN stats.Stats
          /\ StatOf(stats, "total_inactive_file") < stats.Usage
    THEN SubUint(stats.Usage, StatOf(stats, "total_inactive_file"))
    ELSE IF StatOf(stats, "inactive_file") < stats.Usage
    THEN SubUint(stats.Usage, StatOf(stats, "inactive_file"))
    ELSE stats.Usage

\* float64(n) of an unsigned counter: exact up to FloatExact (2^53 in the
\* code), beyond it the nearest representable value, which is every second
\* integer, ties going to the even significand.
Float64(n) ==
    IF n <= FloatExact \/ n % 2 = 0 THEN n
    ELSE IF (n + 1) % 4 = 0 THEN n + 1
    ELSE n - 1

\* The counters of two readings: small ones, and ones float64 cannot tell apart.
Counters == {0, 1, FloatExact, FloatExact + 1, FloatExact + 3}

CPUStats ==
    [PreTotalUsage : Counters, PreSystemUsage : Counters, TotalUsage : Counters,
     SystemUsage : Counters, OnlineCPUs : {0, 2}, PercpuUsage : {0, 1}]

\* math.Round(num / den), halves away from zero, for den > 0.
Round(num, den) ==
    IF num >= 0 THEN (2 * num + den) \div (2 * den)
    ELSE 0 - ((den - 2 * num) \div (2 * den))

\* x / systemDelta * cpus * 100, rounded to thousandths and given in
\* thousandths; a zero divisor is recorded, not divided by.
Percent(cpuDelta, systemDelta, cpus) ==
    IF systemDelta = 0 THEN [value |-> 0, divZero |-> TRUE]
    ELSE IF systemDelta > 0
    THEN [value |-> Round(cpuDelta * cpus * 100000, systemDelta), divZero |-> FALSE]
    ELSE [value |-> Round((0 - cpuDelta) * cpus * 100000, 0 - systemDelta),
          divZero |-> FALSE]

\* CalculateAbsoluteCpu testing the system delta only.
CalculateAbsoluteCpuAnyDelta(pStats, stats) ==
    LET cpuDelta == Float64(stats.TotalUsage) - Float64(pStats.TotalUsage)
        systemDelta == Float64(stats.SystemUsage) - Float64(pStats.SystemUsage)
        cpus == IF stats.OnlineCPUs = 0 THEN stats.PercpuUsage ELSE stats.OnlineCPUs
    IN IF systemDelta > 0
       THEN Percent(cpuDelta, systemDelta, cpus)
       ELSE [value |-> 0, divZero |-> FALSE]

\* CalculateAbsoluteCpu (lines 74-93): the result in thousandths of a percent.
CalculateAbsoluteCpu(pStats, stats) ==
    LET cpuDelta == Float64(stats.TotalUsage) - Float64(pStats.TotalUsage)
        systemDelta == Float64(stats.SystemUsage) - Float64(pStats.SystemUsage)
        cpus == IF stats.OnlineCPUs = 0 THEN stats.PercpuUsage ELSE stats.OnlineCPUs
    IN IF systemDelta > 0 /\ cpuDelta > 0
       THEN Percent(cpuDelta, systemDelta, cpus)
       ELSE [value |-> 0, divZero |-> FALSE]

\* The statistics the two calculations are applied to.
MemoryArgs ==
    {[NoCalc EXCEPT !.fn = "memory", !.Usage = m.Usage, !.Stats = m.Stats] :
        m \in MemoryStats}

CpuArgs ==
    {[NoCalc EXCEPT !.fn = "cpu", !.PreTotalUsage = c.PreTotalUsage,
                    !.PreSystemUsage = c.PreSystemUsage, !.TotalUsage = c.TotalUsage,
                    !.SystemUsage = c.SystemUsage, !.OnlineCPUs = c.OnlineCPUs,
                    !.PercpuUsage = c.PercpuUsage] : c \in CPUStats}

InitCalc ==
    /\ InitSystem
    /\ InitJwtIdle
    /\ InitUsage({NoUsage})
    /\ calcArg \in MemoryArgs \cup CpuArgs
    /\ calcRes = CalcIdle

ApplyMemory ==
    /\ ~calcRes.done
    /\ calcArg.fn = "memory"
    /\ calcRes' = [done |-> TRUE, value |-> CalculateDockerMemory(calcArg),
                   divZero |-> FALSE]
    /\ UNCHANGED <<now, State, listeners, emits, connVars, sendVars, jwtVars, resVars,
                   calcArg, stalled>>

ApplyCpu ==
    /\ ~calcRes.done
    /\ calcArg.fn = "cpu"
    /\ LET r == CalculateAbsoluteCpu(
                    [TotalUsage |-> calcArg.PreTotalUsage,
                     SystemUsage |-> calcArg.PreSystemUsage],
                    calcArg)
       IN calcRes' = [done |-> TRUE, value |-> r.value, divZero |-> r.divZero]
    /\ UNCHANGED <<now, State, listeners, emits, connVars, sendVars, jwtVars, resVars,
                   calcArg, stalled>>

NextCalc == ApplyMemory \/ ApplyCpu

CalcSpec == InitCalc /\ [][NextCalc]_vars

\* ------------------------------------------------------------------ claims

\* The permissions of a token, as a set.
Perms(jwt) == IF jwt = NoJWT THEN {} ELSE {jwt.Permissions[i] : i \in 1..Len(jwt.Permissions)}

\* Connection c has a callback on the broadcaster.
Registered(c) ==
    \E e \in Events : \E i \in 1..Len(listeners[e]) : listeners[e][i] = c

\* The control-surface operations invoked for the frame dispatched last.
OpsCalled(c) == {res[c].calls[i].op : i \in 1..Len(res[c].calls)}

\* The states of the protocol state machine.
Active(c) == pc[c] \in {"addStatus", "addOutput", "addStats", "emit", "emitting", "read", "logs"}
Closing(c) == pc[c] \in {"rmStats", "rmOutput", "rmStatus", "close"}
Closed(c) == pc[c] = "closed"

\* The token re-check fails at the time the last frame was dispatched.
ReCheckFails(c) ==
    \/ JWT[c] = NoJWT
    \/ res[c].at - JWT[c].ExpirationTime > Tolerance
    \/ PermissionConnect \notin Perms(JWT[c])
    \/ JWT[c].ServerUUID # ServerUuid

\* The frame dispatched last did not end the loop: unless a read error
\* ended it since, the handler is back at ReadMessage on an open socket.
LoopGoesOn(c) ==
    /\ exitCause[c] # "dispatchError"
    /\ exitCause[c] = "none" => pc[c] = "read" /\ Connection[c] = "open"

\* The frame dispatched last needs a permission the token does not carry.
LacksNeeded(c) ==
    \/ res[c].frame.event = SetStateEvent /\ PermissionSendPower \notin Perms(JWT[c])
    \/ res[c].frame.event = SendCommandEvent /\ PermissionSendCommand \notin Perms(JWT[c])

\* C1: SendCommand is invoked only for a token carrying "send-command",
\* Start, Stop and Terminate only for one carrying "send-power"; a frame
\* lacking the permission it needs invokes nothing, returns no error and
\* leaves the connection open.
C1_PermissionGate ==
    \A c \in Conns :
        /\ "SendCommand" \in OpsCalled(c) => PermissionSendCommand \in Perms(JWT[c])
        /\ OpsCalled(c) \cap {"Start", "Stop", "Terminate"} # {}
              => PermissionSendPower \in Perms(JWT[c])
        /\ res[c].handled /\ LacksNeeded(c)
              => res[c].calls = <<>> /\ res[c].err = "nil" /\ LoopGoesOn(c)

C1_Witness ==
    /\ res[Client].handled
    /\ res[Client].frame.event = SendCommandEvent
    /\ PermissionSendCommand \notin Perms(JWT[Client])
    /\ ~ReCheckFails(Client)
    /\ pc[Client] = "read"
    /\ Connection[Client] = "open"

\* C2: a request whose token ParseJWT refuses gets no handler: no upgrade,
\* no listener on the broadcaster, no status message, no control-surface
\* operation.
C2_RejectedAtConnect ==
    \A c \in Conns :
        parseErr[c] \in {"signature", "nbf", "exp", "connect"}
            => /\ pc[c] = "rejected"
               /\ Connection[c] = "none"
               /\ JWT[c] = NoJWT
               /\ ~Registered(c)
               /\ todo[HandlerThread(c)] = <<>>
               /\ sent[c] = <<>>
               /\ ~res[c].handled
               /\ res[c].calls = <<>>

C2_Witness ==
    /\ parseErr[Client] = "connect"
    /\ pc[Client] = "rejected"
    /\ now > 0

\* What a frame leaves behind for which the re-check failed: no operation
\* invoked, nothing sent or to be sent, no error, the loop still going.
NoEffect(c) ==
    /\ res[c].calls = <<>>
    /\ res[c].lines = <<>>
    /\ res[c].err = "nil"
    /\ sent[c] = <<>>
    /\ todo[HandlerThread(c)] = <<>>
    /\ LoopGoesOn(c)

\* C3: a frame for which the token re-check fails (expired by more than 15
\* seconds, no "connect" permission, another server's uuid) has no effect
\* and is no error, and so has every frame after it.
C3_StaleNoEffect ==
    \A c \in Conns :
        /\ res[c].handled /\ ReCheckFails(c) => NoEffect(c)
        /\ staleSeen[c] => res[c].handled /\ NoEffect(c)

C3_Witness ==
    /\ staleSeen[Client]
    /\ res[Client].frame.event = SendCommandEvent
    /\ Perms(JWT[Client]) = {PermissionConnect, PermissionSendCommand, PermissionSendPower}
    /\ JWT[Client].ServerUUID = ServerUuid
    /\ res[Client].at - JWT[Client].ExpirationTime = Tolerance + 1
    /\ res[Client].prevMalformed
    /\ pc[Client] = "read"

KillFrame == [json |-> TRUE, event |-> SetStateEvent, args |-> <<S_kill>>]

\* The last frame was "set state" ["kill"] on a token with the power permission.
KillSent(c) ==
    /\ res[c].handled
    /\ res[c].frame = KillFrame
    /\ PermissionSendPower \in Perms(JWT[c])

KillFailed(c) == KillSent(c) /\ ~ReCheckFails(c) /\ res[c].err = "env"

ClosedClean(c) == Closed(c) /\ Connection[c] = "closed" /\ ~Registered(c)

\* C4 as stated: with the power permission, the kill frame invokes
\* Terminate with the kill signal exactly once.
C4_Original ==
    \A c \in Conns : KillSent(c) => res[c].calls = <<Call("Terminate", Kill, 0)>>

\* C4 amended: with the power permission and a token that passes the
\* re-check, the kill frame invokes Terminate with the kill signal exactly
\* once; if the call fails the loop ends, and the connection then closes
\* with its three subscriptions removed.
C4_KillTerminates ==
    /\ [](\A c \in Conns :
            /\ KillSent(c) /\ ~ReCheckFails(c)
                  => res[c].calls = <<Call("Terminate", Kill, 0)>>
            /\ KillFailed(c)
                  => /\ exitCause[c] = "dispatchError"
                     /\ Closing(c) \/ ClosedClean(c))
    /\ \A c \in Conns : KillFailed(c) ~> ClosedClean(c)

C4_Witness == KillFailed(Client) /\ ClosedClean(Client)

\* C5: however the read loop ends, a closed handler has none of its three
\* callbacks on the broadcaster and its socket is closed.
C5_CleanupOnExit ==
    \A c \in Conns :
        /\ Closed(c) => Connection[c] = "closed" /\ ~Registered(c)
        /\ Connection[c] = "closed" => ~Registered(c)
        /\ exitCause[c] # "none" => Closing(c) \/ Closed(c)

C5_Witness ==
    /\ Closed(Client)
    /\ exitCause[Client] = "readError"
    /\ res[Client].handled

\* C6: at most one thread is inside the write of a connection's socket, and
\* it holds the connection's mutex.
C6_OneWriter ==
    \A c \in Conns :
        /\ Cardinality(writing[c]) <= 1
        /\ \A t \in writing[c] : Mutex[c] = t

\* A producer writes on the client's socket while the client's own handler
\* and another connection's handler wait to write on it.
C6_Witness ==
    \E p \in Producers, d \in Conns \ {Client} :
        /\ ProducerThread(p) \in writing[Client]
        /\ pc[Client] = "logs"
        /\ Head(todo[HandlerThread(Client)]).to = Client
        /\ todo[HandlerThread(d)] # <<>>
        /\ Head(todo[HandlerThread(d)]).to = Client

\* The console-output messages of the log lines of the last frame.
LogMessages(c) ==
    [i \in 1..Len(res[c].lines) |-> Message(ConsoleOutputEvent, res[c].lines[i])]

\* What the handler has to send still.
Pending(c) ==
    [i \in 1..Len(todo[HandlerThread(c)]) |-> todo[HandlerThread(c)][i].msg]

\* The last frame was "send logs" and it was handled as "send logs" is.
LogsProcessed(c) ==
    IF ReCheckFails(c) THEN NoEffect(c)
    ELSE /\ res[c].calls # <<>>
         /\ res[c].calls[1].op = "IsRunning"
         /\ Len(res[c].calls) <= 2
         /\ Len(res[c].calls) = 2 => res[c].calls[2] = Call("Readlog", NoArg, 16384)
         /\ res[c].lines # <<>> => Len(res[c].calls) = 2 /\ res[c].err = "nil"
         /\ res[c].err = "nil" => sent[c] \o Pending(c) = LogMessages(c)
         /\ res[c].err = "nil" /\ exitCause[c] = "none" => Connection[c] = "open"

\* C7: a frame that is not JSON changes nothing and the loop goes on; a
\* "send logs" frame after it is dispatched and handled as usual.
C7_MalformedDiscarded ==
    /\ [][\A c \in Conns :
            ~afterMalformed[c] /\ afterMalformed'[c]
                => /\ pc'[c] = "read"
                   /\ UNCHANGED <<listeners, Connection, exitCause, res, sent, todo,
                                  JWT, Mutex, writing, State>>]_vars
    /\ [](\A c \in Conns :
            res[c].handled /\ res[c].prevMalformed /\ res[c].frame.event = SendServerLogsEvent
                => LogsProcessed(c))

C7_Witness ==
    /\ res[Client].prevMalformed
    /\ res[Client].frame.event = SendServerLogsEvent
    /\ Len(res[Client].lines) = MaxLogLines
    /\ sent[Client] = LogMessages(Client)
    /\ pc[Client] = "read"

\* C8: a connection leaves Active only on a read error or on the failure of
\* a call on the control surface.
C8_OnlyFatalExits ==
    [][\A c \in Conns :
          Active(c) /\ ~Active(c)'
              => \/ exitCause'[c] \in {"benignClose", "readError"}
                 \/ /\ exitCause'[c] = "dispatchError"
                    /\ res'[c].err = "env"
                    /\ res'[c].calls # <<>>
                    /\ res'[c].calls[Len(res'[c].calls)].op
                          \in {"Start", "Stop", "Terminate", "SendCommand", "Readlog"}]_vars

C8_Witness ==
    /\ exitCause[Client] = "dispatchError"
    /\ res[Client].frame.event = SendServerLogsEvent
    /\ Closing(Client)

\* The token of jwtArg passes every check of ParseJWT but the expiration's.
ParsesButForExp ==
    /\ jwtArg.tok.sig
    /\ jwtArg.now - jwtArg.tok.NotBefore > 0 - Tolerance
    /\ PermissionConnect \in Perms(jwtArg.tok)

\* It passes every check of TokenValid but the expiration's.
ValidButForExp ==
    /\ PermissionConnect \in Perms(jwtArg.tok)
    /\ jwtArg.tok.ServerUUID = jwtArg.uuid

\* C9: ParseJWT and TokenValid accept a token that expired exactly 15
\* seconds ago and refuse one that expired 16 seconds ago.
C9_ExpBoundary ==
    jwtRes.done =>
        LET late == jwtArg.now - jwtArg.tok.ExpirationTime IN
        /\ late = 15 /\ ParsesButForExp => jwtRes.parse = "nil"
        /\ late = 16 => jwtRes.parse # "nil"
        /\ late = 16 /\ ParsesButForExp => jwtRes.parse = "exp"
        /\ late = 15 /\ ValidButForExp => jwtRes.valid = "nil"
        /\ late = 16 => jwtRes.valid = "exp"

C9_Witness ==
    /\ jwtRes.done
    /\ jwtArg.now - jwtArg.tok.ExpirationTime = 15
    /\ jwtRes.parse = "nil"
    /\ jwtRes.valid = "nil"

\* C10: ParseJWT accepts a token whose not-before is exactly 15 seconds
\* ahead, and refuses it for its not-before only from 16 seconds ahead on.
C10_NbfBoundary ==
    jwtRes.done =>
        LET early == jwtArg.tok.NotBefore - jwtArg.now IN
        /\ /\ early = 15
           /\ jwtArg.tok.sig
           /\ jwtArg.now - jwtArg.tok.ExpirationTime <= 15
           /\ PermissionConnect \in Perms(jwtArg.tok)
              => jwtRes.parse = "nil"
        /\ jwtRes.parse = "nbf" => early >= 16

\* C11: TokenValid returns an error exactly when the handler holds no token,
\* or now - expiration > 15, or "connect" is not among the permissions, or the
\* token's server uuid is not the bound server's; the not-before time plays
\* no part, and a token for another server is refused though unexpired and
\* fully permissioned.
C11_TokenValidExact ==
    jwtRes.done =>
        /\ jwtRes.absent # "nil"
        /\ jwtRes.valid # "nil"
              <=> \/ jwtArg.now - jwtArg.tok.ExpirationTime > 15
                  \/ PermissionConnect \notin Perms(jwtArg.tok)
                  \/ jwtArg.tok.ServerUUID # jwtArg.uuid

\* A token for the other server, unexpired, fully permissioned, and not yet
\* valid by its not-before: refused, and for the server only.
C11_Witness ==
    /\ jwtRes.done
    /\ jwtArg.tok.ServerUUID # jwtArg.uuid
    /\ jwtArg.now - jwtArg.tok.ExpirationTime <= 15
    /\ Perms(jwtArg.tok) = {PermissionConnect, PermissionSendCommand, PermissionSendPower}
    /\ jwtArg.tok.NotBefore - jwtArg.now > 15
    /\ jwtRes.parse = "nbf"
    /\ jwtRes.valid = "uuid"

\* Thread t still has a message to write to connection c.
Owes(t, c) == \E i \in 1..Len(todo[t]) : todo[t][i].to = c

\* C12: with one client whose socket write never completes, every message
\* an Emit owes to a connection whose client goes on reading is eventually
\* written, and every such connection that starts its entry sequence gets to
\* its read loop.
C12_OthersUnaffected ==
    /\ \A t \in Threads : \A c \in Conns :
          Owes(t, c) ~> ~Owes(t, c) \/ ~Responsive(c)
    /\ \A c \in Conns :
          pc[c] = "addStatus" ~> pc[c] = "read" \/ ~Responsive(c)

\* What Empty is to leave of the fields u.
Zeroed(u) ==
    [Memory |-> 0, MemoryLimit |-> u.MemoryLimit, CpuAbsolute |-> 0, Disk |-> u.Disk,
     RxBytes |-> 0, TxBytes |-> 0]

\* C13: when Empty has returned, Memory, CpuAbsolute, RxBytes and TxBytes
\* are zero and Disk and MemoryLimit are what they were; what a reader reads
\* while it holds the shared lock is the fields as they were before Empty or
\* as Empty leaves them, never some of the four zeroed and others not yet.
C13_EmptyAtomic ==
    /\ emptyPc = "done" => ru = Zeroed(prior)
    /\ \A r \in Readers :
          readerPc[r] = "read" => seen[r] = ru /\ seen[r] \in {prior, Zeroed(prior)}

C13_Witness ==
    \E r \in Readers :
        /\ readerPc[r] = "read"
        /\ emptyPc = "done"
        /\ prior.Memory # 0 /\ prior.CpuAbsolute # 0
        /\ prior.RxBytes # 0 /\ prior.TxBytes # 0
        /\ prior.Disk < 0 /\ prior.MemoryLimit # 0
        /\ seen[r] = Zeroed(prior)

\* C14: CalculateDockerMemory returns usage - total_inactive_file when the
\* key is there and its value is below the usage, else usage - inactive_file
\* when that value is below the usage, else the usage; the result never
\* exceeds the usage, and is the usage when every value is at least the usage.
C14_DockerMemory ==
    calcRes.done /\ calcArg.fn = "memory" =>
        LET usage == calcArg.Usage
            hasTotal == "total_inactive_file" \in DOMAIN calcArg.Stats
            hasInactive == "inactive_file" \in DOMAIN calcArg.Stats
            total == IF hasTotal THEN calcArg.Stats["total_inactive_file"] ELSE 0
            inactive == IF hasInactive THEN calcArg.Stats["inactive_file"] ELSE 0
        IN /\ hasTotal /\ total < usage => calcRes.value = usage - total
           /\ ~(hasTotal /\ total < usage) /\ inactive < usage
                 => calcRes.value = usage - inactive
           /\ ~(hasTotal /\ total < usage) /\ ~(inactive < usage)
                 => calcRes.value = usage
           /\ calcRes.value <= usage
           /\ (hasTotal => total >= usage) /\ (hasInactive => inactive >= usage)
                 => calcRes.value = usage

\* Both values there and equal to a usage that is not zero.
C14_Witness ==
    /\ calcRes.done
    /\ calcArg.fn = "memory"
    /\ DOMAIN calcArg.Stats = StatKeys
    /\ calcArg.Usage > 0
    /\ calcArg.Stats["total_inactive_file"] = calcArg.Usage
    /\ calcArg.Stats["inactive_file"] = calcArg.Usage
    /\ calcRes.value = calcArg.Usage

\* C15: CalculateAbsoluteCpu returns 0 whenever the total usage has not
\* grown or the system usage has not grown since the previous reading, and
\* whenever no CPU is counted; it never divides by zero.
C15_AbsoluteCpuZero ==
    calcRes.done /\ calcArg.fn = "cpu" =>
        /\ calcArg.TotalUsage - calcArg.PreTotalUsage <= 0 => calcRes.value = 0
        /\ calcArg.SystemUsage - calcArg.PreSystemUsage <= 0 => calcRes.value = 0
        /\ calcArg.OnlineCPUs = 0 /\ calcArg.PercpuUsage = 0 => calcRes.value = 0
        /\ ~calcRes.divZero

\* The total usage fell (a counter reset) while the system usage grew.
C15_Witness ==
    /\ calcRes.done
    /\ calcArg.fn = "cpu"
    /\ calcArg.TotalUsage < calcArg.PreTotalUsage
    /\ calcArg.SystemUsage > calcArg.PreSystemUsage
    /\ calcArg.OnlineCPUs > 0
    /\ calcRes.value = 0

\* The characters of the arguments of the frame dispatched last, put together.
ArgChars(c) ==
    LET a == res[c].frame.args IN
    IF Len(a) = 0 THEN <<>>
    ELSE IF Len(a) = 1 THEN a[1]
    ELSE a[1] \o a[2]

\* The last frame was "set state", on a token that passes the re-check and
\* carries the power permission.
SetStateAllowed(c) ==
    /\ res[c].handled
    /\ res[c].frame.event = SetStateEvent
    /\ ~ReCheckFails(c)
    /\ PermissionSendPower \in Perms(JWT[c])

\* C16: for a "set state" frame on a valid token with the power permission
\* the arguments put together select the operation: "start" Start, "stop"
\* Stop, "kill" Terminate, each invoked once; "restart" and anything else
\* invoke nothing and are no error; no frame invokes more than one operation.
C16_SetStateDispatch ==
    \A c \in Conns :
        /\ SetStateAllowed(c) =>
              /\ ArgChars(c) = <<"s", "t", "a", "r", "t">>
                    => res[c].calls = <<Call("Start", NoArg, 0)>>
              /\ ArgChars(c) = <<"s", "t", "o", "p">>
                    => res[c].calls = <<Call("Stop", NoArg, 0)>>
              /\ ArgChars(c) = <<"k", "i", "l", "l">>
                    => res[c].calls = <<Call("Terminate", Kill, 0)>>
              /\ ArgChars(c) \notin {<<"s", "t", "a", "r", "t">>, <<"s", "t", "o", "p">>,
                                     <<"k", "i", "l", "l">>}
                    => res[c].calls = <<>> /\ res[c].err = "nil" /\ LoopGoesOn(c)
        /\ res[c].frame.event = SetStateEvent => Len(res[c].calls) <= 1

\* "kill" sent in two arguments, on a connection that goes on reading.
C16_Witness ==
    /\ SetStateAllowed(Client)
    /\ res[Client].frame.args = <<S_ki, S_ll>>
    /\ res[Client].calls = <<Call("Terminate", Kill, 0)>>
    /\ res[Client].err = "nil"
    /\ pc[Client] = "read"

\* A console-output message that carries a line of the log.
IsLogMessage(m) == m.Event = ConsoleOutputEvent /\ m.Args[1].text = "log"

\* The log lines on the socket since the last frame, in the order written.
LogsOnSocket(c) == SelectSeq(sent[c], IsLogMessage)

\* The lines the log read returned for the last frame, each as a message.
LogsReturned(c) ==
    [i \in 1..Len(res[c].logs) |-> Message(ConsoleOutputEvent, res[c].logs[i])]

\* The last frame was "send logs", on a token that passes the re-check.
LogsAllowed(c) ==
    /\ res[c].handled
    /\ res[c].frame.event = SendServerLogsEvent
    /\ ~ReCheckFails(c)

\* C17: for a "send logs" frame on a valid token, whatever its permissions
\* beyond "connect": if the server does not run the log is not read and no
\* line is sent; else the lines the read returned are written to the socket
\* once each, each as a console-output message, in the order returned,
\* whatever other threads write to the socket in between.
C17_LogsInOrder ==
    \A c \in Conns :
        LogsAllowed(c) =>
            /\ ~res[c].running
                  => /\ res[c].calls = <<Call("IsRunning", NoArg, 0)>>
                     /\ LogsOnSocket(c) = <<>>
                     /\ Pending(c) = <<>>
            /\ res[c].running
                  => /\ res[c].calls[Len(res[c].calls)] = Call("Readlog", NoArg, 16384)
                     /\ LogsOnSocket(c) \o Pending(c) = LogsReturned(c)
                     /\ pc[c] # "logs" => LogsOnSocket(c) = LogsReturned(c)

\* Two log lines on the socket with a message of another thread between them.
C17_Witness ==
    /\ LogsAllowed(Client)
    /\ Perms(JWT[Client]) = {PermissionConnect}
    /\ Len(res[Client].logs) = MaxLogLines
    /\ pc[Client] = "read"
    /\ Len(sent[Client]) > 2
    /\ IsLogMessage(sent[Client][1])
    /\ ~IsLogMessage(sent[Client][2])
    /\ IsLogMessage(sent[Client][Len(sent[Client])])

\* C18: once the read loop of a connection has ended, the handler gets to
\* Closed, its three callbacks off the broadcaster and its socket closed,
\* also while a thread inside an Emit holds the connection's mutex in a write
\* that never returns, or waits for that mutex.
C18_EventuallyClosed ==
    \A c \in Conns : exitCause[c] # "none" ~> ClosedClean(c)

\* The client that stopped reading is closed while a producer is still in
\* the write to it and the other connection's handler waits for its mutex.
C18_Witness ==
    \E p \in Producers, d \in Conns \ {Client} :
        /\ ~Responsive(Client)
        /\ ClosedClean(Client)
        /\ ProducerThread(p) \in writing[Client]
        /\ Mutex[Client] = ProducerThread(p)
        /\ todo[HandlerThread(d)] # <<>>
        /\ Head(todo[HandlerThread(d)]).to = Client
        /\ HandlerThread(d) \notin writing[Client]

\* C19 as stated: once the socket of a connection is closed no thread is in
\* a write to it, and none has a callback of it still to run.
C19_Original ==
    \A c \in Conns :
        Connection[c] = "closed"
            => writing[c] = {} /\ \A t \in Threads : ~Owes(t, c)

\* C19 amended: once the socket of a connection is closed, an Emit that
\* starts invokes no callback of that connection, and nothing more is put on
\* the socket.
C19_NothingNewAfterClose ==
    [][\A c \in Conns :
          Connection[c] = "closed"
              => /\ sent'[c] = sent[c]
                 /\ \A t \in Threads : todo[t] = <<>> => ~Owes(t, c)']_vars

\* The client is closed and unsubscribed, and a producer whose Emit began
\* before has the client's callback still to run, the write not yet begun.
C19_Witness ==
    \E p \in Producers :
        /\ ClosedClean(Client)
        /\ Owes(ProducerThread(p), Client)
        /\ ProducerThread(p) \notin writing[Client]
        /\ Mutex[Client] = NoThread

\* Connection c has its callback on the broadcaster for event e.
RegisteredFor(c, e) == \E i \in 1..Len(listeners[e]) : listeners[e][i] = c

\* C20: the status push of a connection's entry sequence is made with the
\* three subscriptions registered and before any frame is read, and it is one
\* status message, to the connection that is entering and to no other.
C20_StatusToNewcomerOnly ==
    \A c \in Conns :
        pc[c] = "emitting"
            => /\ \A e \in Events : RegisteredFor(c, e)
               /\ ~res[c].handled /\ ~afterMalformed[c] /\ exitCause[c] = "none"
               /\ Len(todo[HandlerThread(c)]) = 1
               /\ todo[HandlerThread(c)][1].to = c
               /\ todo[HandlerThread(c)][1].msg.Event = StatusEvent

====
